---- MODULE Spec2Model ----
(***************************************************************************)
(* The example_vector_embeddings DAG                                       *)
(* (generative-ai/dags/example_vector_embeddings_no_comments.py): six      *)
(* tasks run by the Airflow scheduler against one persistent DuckDB file.  *)
(*                                                                         *)
(* A vector is kept as [len, head]: `len` is its number of components and  *)
(* `head` its leading components; every component after the head is 0      *)
(* (the "padded to D" vectors of the scenario).  Components are integers   *)
(* in tenths (10 stands for 1.0, 9 for 0.9).                               *)
(*                                                                         *)
(* DuckDB runs in autocommit mode: the code opens no transaction, so every *)
(* statement that returns has committed.  A statement can also fail for a  *)
(* reason outside the program (StatementFault); the embedding provider is  *)
(* modelled by its output only, not by its outages.                        *)
(***************************************************************************)
EXTENDS Integers, Sequences, FiniteSets, TLC

\* ------------------------------------------------------------ constants

\* vec FLOAT[384]  and  ::FLOAT[384]
D == 384
\* LIMIT 3
K == 3
\* default_args["retries"]
DefaultRetries == 3
\* @task(retries=2) of get_words
GetWordsRetries == 2
\* max_active_runs=1
MaxActiveRuns == 1
\* concurrency=1
Concurrency == 1

\* --------------------------------------------------------------- bounds

\* longest list given as the my_list_of_words param
MaxWords == 2
\* transient failures (an I/O error, a killed worker) in one DAG run
MaxFaults == 2

\* ----------------------------------------------------------------- data

EmbeddingsTable == "embeddings_table"
OtherTable == "other_table"
\* values of the DUCKDB_TABLE_NAME environment variable
TableNames == {EmbeddingsTable, OtherTable}

\* words given in the my_list_of_words param
ListWords == {"sun", "planet"}
\* words given as the my_word_of_interest param
QueryWords == {"sun", "rocket"}

WordLists == UNION {[1..n -> ListWords] : n \in 0..MaxWords}

Vec(n, h) == [len |-> n, head |-> h]

\* the vector the embedding provider gives a word when it works as documented
Embedding(word) ==
    CASE word = "sun" -> Vec(D, <<10, 0>>)
      [] word = "rocket" -> Vec(D, <<0, 10>>)
      [] OTHER -> Vec(D, <<9, 1>>)

\* get_embeddings_one_word(word): the dict {word: vector} of an opaque provider,
\* whose output nothing in the DAG validates: the documented vector, or one a
\* component short.
get_embeddings_one_word(word) ==
    {[text |-> word, vec |-> Embedding(word)],
     [text |-> word, vec |-> Vec(D - 1, Embedding(word).head)]}

\* ---------------------------------------------------------------- tasks

GetWords == "get_words"
CreateEmbeddings == "create_embeddings"
CreateVectorTable == "create_vector_table"
InsertWords == "insert_words_into_db"
EmbedWord == "embed_word"
FindClosest == "find_closest_word_match"

Tasks == {GetWords, CreateEmbeddings, CreateVectorTable, InsertWords, EmbedWord,
          FindClosest}

\* the tasks that open the DuckDB file
StorageTasks == {CreateVectorTable, InsertWords, FindClosest}

\* Direct upstream tasks: the XCom arguments of lines 161-167 only.
UpstreamWithoutChain(t) ==
    CASE t = CreateEmbeddings -> {GetWords}
      [] t = InsertWords -> {CreateEmbeddings}
      [] t = FindClosest -> {EmbedWord}
      [] OTHER -> {}

\* Direct upstream tasks: XCom arguments plus chain(create, insert, find).
Upstream(t) ==
    CASE t = CreateEmbeddings -> {GetWords}
      [] t = InsertWords -> {CreateEmbeddings, CreateVectorTable}
      [] t = FindClosest -> {EmbedWord, InsertWords}
      [] OTHER -> {}

Retries(t) == IF t = GetWords THEN GetWordsRetries ELSE DefaultRetries

VARIABLES
    cfgTable,     \* _DUCKDB_TABLE_NAME, read from the environment at import
    tables,       \* the DuckDB file: table name -> [exists, rows]
    hnswIndex,    \* the table my_hnsw_index is on, or "" when there is no index
    ti,           \* task instance states of the current DAG run
    tries,        \* try_number of each task instance
    pc,           \* where each running task is in its body
    loopIdx,      \* insert_words_into_db: index of the next record to insert
    conn,         \* the connection each storage task last opened
    xcom,         \* return values pushed by the tasks
    err,          \* the exception that ended each task's last failed try
    faults,       \* transient failures so far in the current DAG run
    rowsAtStart,  \* history: rows of the target table when the last insert try began
    replaced,     \* history: the last CREATE OR REPLACE TABLE dropped rows
    observed      \* history: rows the last query read, and the row indices it chose

vars == <<cfgTable, tables, hnswIndex, ti, tries, pc, loopIdx, conn, xcom, err,
          faults, rowsAtStart, replaced, observed>>

dbVars == <<tables, hnswIndex>>
histVars == <<rowsAtStart, replaced, observed>>

NoTable == [exists |-> FALSE, rows |-> <<>>]
NoXCom == [words |-> <<>>, embeddings |-> <<>>, query |-> <<>>, top_3 |-> <<>>]
NoObserved == [rows |-> <<>>, picked |-> <<>>]

Init ==
    /\ cfgTable \in TableNames
    /\ tables = [n \in TableNames |-> NoTable]
    /\ hnswIndex = ""
    /\ ti = [t \in Tasks |-> "none"]
    /\ tries = [t \in Tasks |-> 0]
    /\ pc = [t \in Tasks |-> "idle"]
    /\ loopIdx = 0
    /\ conn = [t \in StorageTasks |-> "none"]
    /\ xcom = NoXCom
    /\ err = [t \in Tasks |-> "none"]
    /\ faults = 0
    /\ rowsAtStart = <<>>
    /\ replaced = FALSE
    /\ observed = NoObserved

\* ------------------------------------------------------- DuckDB semantics

Min(a, b) == IF a < b THEN a ELSE b

\* a column of type FLOAT[] would take a list of any length
FitsAnyLength(v) == TRUE

\* The cast of a list to FLOAT[384] (the vec column of the table, the ::FLOAT[384]
\* of the query): a list of another length is a conversion error.
FitsFloatArray(v) == v.len = D

\* CREATE TABLE IF NOT EXISTS name: an existing table keeps its rows
CreateTableIfNotExists(db, name) ==
    [db EXCEPT ![name] = [exists |-> TRUE, rows |-> db[name].rows]]

\* CREATE OR REPLACE TABLE name (text STRING, vec FLOAT[384]): a table of that
\* name is dropped with its rows, and an empty one created.
CreateOrReplaceTable(db, name) ==
    [db EXCEPT ![name] = [exists |-> TRUE, rows |-> <<>>]]

\* INSERT INTO name (text, vec) VALUES (?, ?)
InsertRow(db, name, rec) ==
    [db EXCEPT ![name].rows = Append(@, [text |-> rec.text, vec |-> rec.vec])]

Component(v, i) == IF i <= Len(v.head) THEN v.head[i] ELSE 0

RECURSIVE SumSquares(_, _, _)
SumSquares(a, b, i) ==
    IF i = 0 THEN 0
    ELSE (Component(a, i) - Component(b, i)) * (Component(a, i) - Component(b, i))
         + SumSquares(a, b, i - 1)

\* array_distance(a, b) of two vectors of equal length, squared: the square root
\* is monotone, so ORDER BY array_distance orders by this.
DistanceSq(a, b) ==
    SumSquares(a, b, IF Len(a.head) < Len(b.head) THEN Len(b.head) ELSE Len(a.head))

\* ORDER BY ... DESC would take the farthest first
Farthest(rows, S, q) ==
    {i \in S : \A j \in S : DistanceSq(rows[i].vec, q) >= DistanceSq(rows[j].vec, q)}

\* the rows of S that come first under ORDER BY array_distance(vec, q)
Nearest(rows, S, q) ==
    {i \in S : \A j \in S : DistanceSq(rows[i].vec, q) <= DistanceSq(rows[j].vec, q)}

\* ORDER BY array_distance(vec, q) LIMIT n over the rows S (a top-n scan): every
\* choice of n row indices in ascending distance, nearest first; rows at equal
\* distance come in any order.
RECURSIVE TopN(_, _, _, _)
TopN(rows, S, q, n) ==
    IF n = 0 \/ S = {} THEN {<<>>}
    ELSE UNION {{<<i>> \o rest : rest \in TopN(rows, S \ {i}, q, n - 1)} :
                i \in Nearest(rows, S, q)}

\* a query without its LIMIT returns every row
NoLimit(k, n) == n

\* the number of rows LIMIT k lets through, out of n
Limit(k, n) == Min(k, n)

\* SELECT text FROM t ORDER BY array_distance(vec, q) LIMIT k, as the row indices
\* that make up the result
SelectNearest(rows, q, k) == TopN(rows, DOMAIN rows, q, Limit(k, Len(rows)))

\* fetchall(): one 1-tuple (text,) per result row
FetchAll(rows, picked) == [n \in DOMAIN picked |-> <<rows[picked[n]].text>>]

\* ---------------------------------------------------------- the scheduler

Running == {t \in Tasks : ti[t] = "running"}
Finished(t) == ti[t] \in {"success", "failed", "upstream_failed"}
RunFinished == \A t \in Tasks : Finished(t)

\* The scheduler starts a try of a task instance: its state is None or
\* up_for_retry, every direct upstream task succeeded (trigger rule all_success)
\* and the DAG has a free slot (concurrency=1).
Start(t) ==
    /\ ti[t] \in {"none", "up_for_retry"}
    /\ \A u \in Upstream(t) : ti[u] = "success"
    /\ Cardinality(Running) < Concurrency
    /\ ti' = [ti EXCEPT ![t] = "running"]
    /\ tries' = [tries EXCEPT ![t] = @ + 1]
    /\ pc' = [pc EXCEPT ![t] = "begin"]
    /\ UNCHANGED <<cfgTable, dbVars, loopIdx, conn, xcom, err, faults, histVars>>

\* A task whose upstream task failed, or was itself marked, never runs.
MarkUpstreamFailed(t) ==
    /\ ti[t] = "none"
    /\ \E u \in Upstream(t) : ti[u] \in {"failed", "upstream_failed"}
    /\ ti' = [ti EXCEPT ![t] = "upstream_failed"]
    /\ UNCHANGED <<cfgTable, dbVars, tries, pc, loopIdx, conn, xcom, err, faults,
                   histVars>>

\* The task's callable raised e: up_for_retry while tries are left, else failed.
\* Nothing is closed or rolled back on this path.
Raise(t, e) ==
    /\ ti' = [ti EXCEPT ![t] = IF tries[t] <= Retries(t) THEN "up_for_retry"
                               ELSE "failed"]
    /\ pc' = [pc EXCEPT ![t] = "idle"]
    /\ err' = [err EXCEPT ![t] = e]

Succeed(t) ==
    /\ ti' = [ti EXCEPT ![t] = "success"]
    /\ pc' = [pc EXCEPT ![t] = "idle"]

At(t, label) == ti[t] = "running" /\ pc[t] = label

\* ------------------------------------------------------------ the tasks

\* get_words: returns the my_list_of_words param of the run.
GetWordsRun ==
    /\ At(GetWords, "begin")
    /\ Succeed(GetWords)
    /\ \E words \in WordLists : xcom' = [xcom EXCEPT !.words = words]
    /\ UNCHANGED <<cfgTable, dbVars, tries, loopIdx, conn, err, faults, histVars>>

\* the lists create_embeddings can return for list_of_words: one provider
\* dict per word, in order
EmbedAll(list_of_words) ==
    {e \in [DOMAIN list_of_words -> UNION {get_embeddings_one_word(w) : w \in ListWords}] :
        \A i \in DOMAIN list_of_words : e[i] \in get_embeddings_one_word(list_of_words[i])}

\* create_embeddings: calls the provider once per word and returns the list.
CreateEmbeddingsRun ==
    /\ At(CreateEmbeddings, "begin")
    /\ Succeed(CreateEmbeddings)
    /\ \E e \in EmbedAll(xcom.words) : xcom' = [xcom EXCEPT !.embeddings = e]
    /\ UNCHANGED <<cfgTable, dbVars, tries, loopIdx, conn, err, faults, histVars>>

\* embed_word: embeds the my_word_of_interest param and returns {word: vector}.
EmbedWordRun ==
    /\ At(EmbedWord, "begin")
    /\ Succeed(EmbedWord)
    /\ \E w \in QueryWords : \E e \in get_embeddings_one_word(w) :
          xcom' = [xcom EXCEPT !.query = <<e>>]
    /\ UNCHANGED <<cfgTable, dbVars, tries, loopIdx, conn, err, faults, histVars>>

\* create_vector_table ignores its table_name argument: line 87 overwrites it.
CreatedTableName(table_name) == EmbeddingsTable

\* create_vector_table, lines 81-85: connect, INSTALL, LOAD, SET.
CvtConnect ==
    /\ At(CreateVectorTable, "begin")
    /\ conn' = [conn EXCEPT ![CreateVectorTable] = "open"]
    /\ pc' = [pc EXCEPT ![CreateVectorTable] = "create_table"]
    /\ UNCHANGED <<cfgTable, dbVars, ti, tries, loopIdx, xcom, err, faults, histVars>>

\* create_vector_table, lines 91-94: CREATE OR REPLACE TABLE, committed on its own;
\* an index on the replaced table goes with it.
CvtCreateTable ==
    /\ At(CreateVectorTable, "create_table")
    /\ replaced' = (tables[CreatedTableName(cfgTable)].rows # <<>>)
    /\ tables' = CreateOrReplaceTable(tables, CreatedTableName(cfgTable))
    /\ hnswIndex' = IF hnswIndex = CreatedTableName(cfgTable) THEN "" ELSE hnswIndex
    /\ pc' = [pc EXCEPT ![CreateVectorTable] = "create_index"]
    /\ UNCHANGED <<cfgTable, ti, tries, loopIdx, conn, xcom, err, faults,
                   rowsAtStart, observed>>

\* create_vector_table, line 97: CREATE INDEX my_hnsw_index, an error when an
\* index of that name exists.
CvtCreateIndex ==
    /\ At(CreateVectorTable, "create_index")
    /\ IF hnswIndex = ""
       THEN /\ hnswIndex' = CreatedTableName(cfgTable)
            /\ pc' = [pc EXCEPT ![CreateVectorTable] = "close"]
            /\ UNCHANGED <<ti, err>>
       ELSE /\ Raise(CreateVectorTable, "CatalogError")
            /\ UNCHANGED hnswIndex
    /\ UNCHANGED <<cfgTable, tables, tries, loopIdx, conn, xcom, faults, histVars>>

\* create_vector_table, line 100: cursor.close(), and the task returns.
CvtClose ==
    /\ At(CreateVectorTable, "close")
    /\ conn' = [conn EXCEPT ![CreateVectorTable] = "closed"]
    /\ Succeed(CreateVectorTable)
    /\ UNCHANGED <<cfgTable, dbVars, tries, loopIdx, xcom, err, faults, histVars>>

\* insert_words_into_db, lines 108-110: connect, INSTALL, LOAD.
InsConnect ==
    /\ At(InsertWords, "begin")
    /\ conn' = [conn EXCEPT ![InsertWords] = "open"]
    /\ pc' = [pc EXCEPT ![InsertWords] = "loop"]
    /\ loopIdx' = 1
    /\ rowsAtStart' = tables[cfgTable].rows
    /\ UNCHANGED <<cfgTable, dbVars, ti, tries, xcom, err, faults, replaced, observed>>

\* insert_words_into_db, lines 112-121: one INSERT per record, each committed on
\* its own (no transaction is opened).  The statement fails when the table does
\* not exist or the vector does not fit the vec column.
InsInsert ==
    /\ At(InsertWords, "loop")
    /\ loopIdx <= Len(xcom.embeddings)
    /\ LET rec == xcom.embeddings[loopIdx] IN
       IF ~tables[cfgTable].exists
       THEN /\ Raise(InsertWords, "CatalogError")
            /\ UNCHANGED <<tables, loopIdx>>
       ELSE IF ~FitsFloatArray(rec.vec)
       THEN /\ Raise(InsertWords, "ConversionError")
            /\ UNCHANGED <<tables, loopIdx>>
       ELSE /\ tables' = InsertRow(tables, cfgTable, rec)
            /\ loopIdx' = loopIdx + 1
            /\ UNCHANGED <<ti, pc, err>>
    /\ UNCHANGED <<cfgTable, hnswIndex, tries, conn, xcom, faults, histVars>>

\* insert_words_into_db, line 123: cursor.close() after the loop, and the task
\* returns.
InsClose ==
    /\ At(InsertWords, "loop")
    /\ loopIdx > Len(xcom.embeddings)
    /\ conn' = [conn EXCEPT ![InsertWords] = "closed"]
    /\ Succeed(InsertWords)
    /\ UNCHANGED <<cfgTable, dbVars, tries, loopIdx, xcom, err, faults, histVars>>

\* find_closest_word_match, lines 140-141: connect, LOAD.
FindConnect ==
    /\ At(FindClosest, "begin")
    /\ conn' = [conn EXCEPT ![FindClosest] = "open"]
    /\ pc' = [pc EXCEPT ![FindClosest] = "query"]
    /\ UNCHANGED <<cfgTable, dbVars, ti, tries, loopIdx, xcom, err, faults, histVars>>

\* find_closest_word_match, lines 143-159: the query, fetchall, the log lines and
\* the return.  The function has no cursor.close().
FindQuery ==
    /\ At(FindClosest, "query")
    /\ LET q == xcom.query[1].vec
           rows == tables[cfgTable].rows
       IN
       IF ~tables[cfgTable].exists
       THEN /\ Raise(FindClosest, "CatalogError")
            /\ UNCHANGED <<xcom, observed>>
       ELSE IF ~FitsFloatArray(q)
       THEN /\ Raise(FindClosest, "ConversionError")
            /\ UNCHANGED <<xcom, observed>>
       ELSE /\ \E picked \in SelectNearest(rows, q, K) :
                  /\ xcom' = [xcom EXCEPT !.top_3 = FetchAll(rows, picked)]
                  /\ observed' = [rows |-> rows, picked |-> picked]
            /\ Succeed(FindClosest)
            /\ UNCHANGED err
    /\ UNCHANGED <<cfgTable, dbVars, tries, loopIdx, conn, faults, rowsAtStart,
                   replaced>>

\* A statement of a storage task raises for a reason outside the program (an I/O
\* error, a killed worker): whatever earlier statements committed stays.
StatementFault(t) ==
    /\ t \in StorageTasks
    /\ ti[t] = "running"
    /\ pc[t] \in {"create_table", "create_index", "loop", "query"}
    /\ t = InsertWords => loopIdx <= Len(xcom.embeddings)
    /\ faults < MaxFaults
    /\ faults' = faults + 1
    /\ Raise(t, "IOError")
    /\ UNCHANGED <<cfgTable, dbVars, tries, loopIdx, conn, xcom, histVars>>

\* The next scheduled DAG run: with max_active_runs=1 it starts once the current
\* run has finished.  The DuckDB file and the environment stay.
NewRun ==
    /\ (IF RunFinished THEN 0 ELSE 1) < MaxActiveRuns
    /\ ti' = [t \in Tasks |-> "none"]
    /\ tries' = [t \in Tasks |-> 0]
    /\ pc' = [t \in Tasks |-> "idle"]
    /\ loopIdx' = 0
    /\ conn' = [t \in StorageTasks |-> "none"]
    /\ xcom' = NoXCom
    /\ err' = [t \in Tasks |-> "none"]
    /\ rowsAtStart' = <<>>
    /\ replaced' = FALSE
    /\ observed' = NoObserved
    /\ faults' = 0
    /\ UNCHANGED <<cfgTable, dbVars>>

Next ==
    \/ \E t \in Tasks : Start(t)
    \/ \E t \in Tasks : MarkUpstreamFailed(t)
    \/ GetWordsRun
    \/ CreateEmbeddingsRun
    \/ EmbedWordRun
    \/ CvtConnect
    \/ CvtCreateTable
    \/ CvtCreateIndex
    \/ CvtClose
    \/ InsConnect
    \/ InsInsert
    \/ InsClose
    \/ FindConnect
    \/ FindQuery
    \/ \E t \in Tasks : StatementFault(t)
    \/ NewRun

Spec == Init /\ [][Next]_vars

\* --------------------------------------------------------------- claims

Started(t) == tries[t] > 0
Range(s) == {s[n] : n \in DOMAIN s}
TableRows == tables[cfgTable].rows

\* distance of row i of the table the last query read to that query's vector
ObservedDistance(i) == DistanceSq(observed.rows[i].vec, xcom.query[1].vec)

\* C1: when find_closest_word_match has returned, its result is the texts of
\* distinct rows of the table it read, each returned row is no farther from the
\* query vector than the row returned after it, and no row that was left out is
\* nearer than a returned one.
C1_NearestInAscendingOrder ==
    ti[FindClosest] = "success" =>
        /\ observed.rows = TableRows
        /\ Range(observed.picked) \subseteq DOMAIN observed.rows
        /\ xcom.top_3 = [n \in DOMAIN observed.picked |->
                            <<observed.rows[observed.picked[n]].text>>]
        /\ \A m, n \in DOMAIN observed.picked :
              m < n => /\ observed.picked[m] # observed.picked[n]
                       /\ ObservedDistance(observed.picked[m])
                            <= ObservedDistance(observed.picked[n])
        /\ \A o \in DOMAIN observed.rows \ Range(observed.picked) :
              \A n \in DOMAIN observed.picked :
                  ObservedDistance(observed.picked[n]) <= ObservedDistance(o)

\* a query of a table of more than K rows that left out a row strictly farther
\* than the last row it returned
C1_Witness ==
    /\ ti[FindClosest] = "success"
    /\ Len(observed.rows) > K
    /\ Len(observed.picked) = K
    /\ \E o \in DOMAIN observed.rows \ Range(observed.picked) :
          ObservedDistance(observed.picked[K]) < ObservedDistance(o)

\* C2: a try of insert_words_into_db that failed on a vector of the wrong length
\* leaves the table with exactly the rows it held when the try began.
C2_FailedBatchLeavesTableUnchanged ==
    (ti[InsertWords] \in {"up_for_retry", "failed"} /\ err[InsertWords] = "ConversionError")
        => TableRows = rowsAtStart

\* C3: every row of every table has a vector of exactly D components.
C3_StoredVectorsHaveLengthD ==
    \A name \in TableNames :
        \A i \in DOMAIN tables[name].rows : tables[name].rows[i].vec.len = D

\* an insert try was refused a vector of the wrong length after it had stored rows
C3_Witness ==
    /\ err[InsertWords] = "ConversionError"
    /\ ti[InsertWords] \in {"up_for_retry", "failed"}
    /\ TableRows # <<>>

\* C4: from the moment create_vector_table has succeeded until insert_words_into_db
\* first starts, the table it created exists and is empty, whatever the table held
\* before.
C4_TableEmptyAfterCreate ==
    (ti[CreateVectorTable] = "success" /\ ~Started(InsertWords))
        => tables[EmbeddingsTable] = [exists |-> TRUE, rows |-> <<>>]

\* create_vector_table has succeeded in a later dropping the rows an earlier
\* run had inserted
C4_Witness ==
    /\ ti[CreateVectorTable] = "success"
    /\ ~Started(InsertWords)
    /\ replaced
    /\ tables[EmbeddingsTable].rows = <<>>

\* C5: in every DAG find_closest_word_match has started only if
\* insert_words_into_db succeeded, insert_words_into_db has started only if
\* create_vector_table and create_embeddings succeeded, and when any task
\* upstream of the query has failed the query has not run.
C5_StagesInOrder ==
    /\ Started(FindClosest) => ti[InsertWords] = "success"
    /\ Started(InsertWords) =>
          ti[CreateVectorTable] = "success" /\ ti[CreateEmbeddings] = "success"
    /\ (\E u \in Tasks \ {FindClosest} : ti[u] \in {"failed", "upstream_failed"})
          => ~Started(FindClosest)

\* the query is running after an insert that succeeded on a retry
C5_Witness ==
    /\ ti[FindClosest] = "running"
    /\ ti[InsertWords] = "success"
    /\ tries[InsertWords] > 1

\* C6: the rows a query has read are the rows of the run's insert batch, or the
\* empty table as it was before the batch; never rows of a try that was abandoned
\* midway.
C6_QueryReadsWholeBatch ==
    ti[FindClosest] = "success" =>
        observed.rows = xcom.embeddings \/ observed.rows = <<>>

\* C7: a storage task that has ended a try, in success or in failure, has closed
\* the connection it opened.
C7_ConnectionClosedOnExit ==
    \A t \in StorageTasks :
        ti[t] \in {"success", "up_for_retry", "failed"} => conn[t] = "closed"

\* C8: find_closest_word_match returns exactly min(K, n) entries of a table of n
\* rows: all of them when n < K, and the empty sequence when the table is empty.
C8_ResultSizeIsMinKN ==
    ti[FindClosest] = "success" =>
        /\ observed.rows = TableRows
        /\ Len(xcom.top_3) = Min(K, Len(observed.rows))

\* a query of a created and unpopulated table returned the empty sequence
C8_Witness ==
    /\ ti[FindClosest] = "success"
    /\ tables[cfgTable].exists
    /\ TableRows = <<>>
    /\ xcom.top_3 = <<>>

\* C9: once create_vector_table has succeeded, the configured table (the one
\* insert_words_into_db writes to and find_closest_word_match reads) exists.
C9_CreateMakesConfiguredTable ==
    ti[CreateVectorTable] = "success" => tables[cfgTable].exists

\* C10: when insert_words_into_db has succeeded, the table holds exactly one row
\* per record of the run's list, in order.
C10_OneRowPerRecord ==
    ti[InsertWords] = "success" => TableRows = xcom.embeddings

====
